---------------------------- MODULE Spec2Model ----------------------------
(***************************************************************************)
(* A model of libvips/foreign/openslide.c: the OpenSlide loader of libvips. *)
(*                                                                         *)
(*   readslide_new / readslide_destroy_cb   the slide handle and its       *)
(*                                          release on the image's "close" *)
(*   vips__openslide_read_header            open only                      *)
(*   vips__openslide_read_file              open + tile cache sizing       *)
(*   vips__openslide_read_associated        eager read of an associated    *)
(*                                          image                          *)
(*   fill_region                            the demand callback, one step  *)
(*                                          per openslide_read_region call *)
(*                                                                         *)
(* C strings are sequences of one-character strings.  A 64-bit integer the *)
(* backend reports is a pair <<hi, lo>> standing for hi * 2^31 + lo with   *)
(* 0 <= lo < 2^31, so that every number TLC computes stays inside 32 bits. *)
(***************************************************************************)
EXTENDS Integers, Sequences, FiniteSets, TLC

VARIABLES
    LONG_BITS,  \* width of C long in this build: 32 (ILP32, LLP64) or 64 (LP64)
    pc,         \* "idle" before the entry point runs, then its position
    call,       \* the entry point called and its arguments
    be,         \* what the backend answered to the queries of readslide_new
    rslide,     \* the ReadSlide struct: osr, associated, layer, downsample
    connected,  \* readslide_destroy_cb is connected to the image's "close"
    opens,      \* openslide_open calls that returned a handle
    closes,     \* openslide_close calls
    teardowns,  \* "close" emissions on the owning image
    img,        \* the fields vips_image_init_fields set on the image
    result,     \* the entry point's outcome
    max_tiles,  \* the capacity handed to im_tile_cache
    ra,         \* vips__openslide_read_associated: queries, buffer, rows
    thr,        \* fill_region: one record per calling thread (its region and
                \* loop position, the reads it issued, the first that failed)
    osrError    \* the backend's per-resource error state

vars == <<LONG_BITS, pc, call, be, rslide, connected, opens, closes,
          teardowns, img, result, max_tiles, ra, thr, osrError>>

-----------------------------------------------------------------------------
(* Constants of the program and of the C platform.                          *)

TILE_WIDTH == 256
TILE_HEIGHT == 256
INT_MAX == 2147483647
Limb == 65536
HalfLimb == 32768

(* A null pointer: a value no C string equals.                              *)
NULL == <<"(null)">>

(* The error classes, by the vips_error message that raises them.           *)
OpenFailure == "OpenFailure"                      \* "failure opening slide"
InvalidLayer == "InvalidLayer"                    \* "invalid slide layer"
InvalidAssociatedName == "InvalidAssociatedName"  \* "invalid associated image name"
DimensionQuery == "DimensionQuery"                \* "getting dimensions: %s"
DimensionOverflow == "DimensionOverflow"          \* "image dimensions overflow int"
ReadFailure == "ReadFailure"                      \* "reading region: %s"
HostFailure == "HostFailure"                      \* a vips call returned nonzero
Crash == "Crash"                                  \* the process died
Ok == "Ok"

-----------------------------------------------------------------------------
(* 64-bit integers as <<hi, lo>> = hi * 2^31 + lo.                          *)

I64(n) == IF n >= 0 THEN <<0, n>> ELSE <<-1, (INT_MAX + n) + 1>>
I64Neg(v) == v[1] < 0
I64GtIntMax(v) == v[1] > 0
I64IsMinus1(v) == v = <<-1, INT_MAX>>
(* (int) v, for v already known to lie in 0 .. INT_MAX.                     *)
I64ToInt(v) == v[2]

-----------------------------------------------------------------------------
(* strtol( s, &endp, 10 ).  The magnitude is kept in four 16-bit limbs with *)
(* a sticky overflow flag, so that 20-digit inputs can be parsed.           *)

DigitVal ==
    ("0" :> 0) @@ ("1" :> 1) @@ ("2" :> 2) @@ ("3" :> 3) @@ ("4" :> 4) @@
    ("5" :> 5) @@ ("6" :> 6) @@ ("7" :> 7) @@ ("8" :> 8) @@ ("9" :> 9)
IsDigit(c) == c \in DOMAIN DigitVal
IsSpace(c) == c \in {" ", "\t", "\n"}

(* The element of a one-element set.  A value bound through a one-element  *)
(* set is computed once, where a LET would compute it again at every use.   *)
Only(S) == CHOOSE x \in S : TRUE

MagZero == [l0 |-> 0, l1 |-> 0, l2 |-> 0, l3 |-> 0, ovf |-> FALSE]

(* m * 10 + d                                                               *)
MulAdd10(m, d) ==
    LET t0 == m.l0 * 10 + d
        t1 == m.l1 * 10 + (t0 \div Limb)
        t2 == m.l2 * 10 + (t1 \div Limb)
        t3 == m.l3 * 10 + (t2 \div Limb)
    IN  [l0 |-> t0 % Limb, l1 |-> t1 % Limb, l2 |-> t2 % Limb,
         l3 |-> t3 % Limb, ovf |-> m.ovf \/ (t3 \div Limb) > 0]

RECURSIVE SkipSpace(_, _)
SkipSpace(s, i) ==
    IF i <= Len(s) /\ IsSpace(s[i]) THEN SkipSpace(s, i + 1) ELSE i

RECURSIVE ScanDigits(_, _, _)
ScanDigits(s, i, m) ==
    IF i <= Len(s) /\ IsDigit(s[i])
    THEN Only({ ScanDigits(s, j, n) :
                    j \in {i + 1}, n \in {MulAdd10(m, DigitVal[s[i]])} })
    ELSE [mag |-> m, end |-> i]

(* The subject sequence of s: sign, magnitude, and the index one past it;   *)
(* none is TRUE when no digit was found (strtol then stores nptr in endp).  *)
ScanInteger(s) ==
    Only({ LET signed == i0 <= Len(s) /\ s[i0] \in {"+", "-"}
               i1 == IF signed THEN i0 + 1 ELSE i0
           IN  Only({ [neg |-> signed /\ s[i0] = "-", mag |-> d.mag,
                       end |-> d.end, none |-> d.end = i1] :
                      d \in {ScanDigits(s, i1, MagZero)} }) :
           i0 \in {SkipSpace(s, 1)} })

MagLowZero(m) == m.l0 = 0 /\ m.l1 = 0 /\ m.l2 = 0

(* The magnitude does not fit a long of the given width with this sign.     *)
LongOverflows(neg, m, bits) ==
    IF bits = 64
    THEN \/ m.ovf
         \/ IF neg THEN m.l3 > HalfLimb \/ (m.l3 = HalfLimb /\ ~MagLowZero(m))
                   ELSE m.l3 >= HalfLimb
    ELSE \/ m.ovf \/ m.l3 # 0 \/ m.l2 # 0
         \/ IF neg THEN m.l1 > HalfLimb \/ (m.l1 = HalfLimb /\ m.l0 # 0)
                   ELSE m.l1 >= HalfLimb

(* LONG_MAX and -LONG_MIN as magnitudes.                                    *)
LongMaxMag(bits) ==
    IF bits = 64
    THEN [l0 |-> Limb - 1, l1 |-> Limb - 1, l2 |-> Limb - 1,
          l3 |-> HalfLimb - 1, ovf |-> FALSE]
    ELSE [l0 |-> Limb - 1, l1 |-> HalfLimb - 1, l2 |-> 0, l3 |-> 0,
          ovf |-> FALSE]
LongMinMag(bits) ==
    IF bits = 64
    THEN [l0 |-> 0, l1 |-> 0, l2 |-> 0, l3 |-> HalfLimb, ovf |-> FALSE]
    ELSE [l0 |-> 0, l1 |-> HalfLimb, l2 |-> 0, l3 |-> 0, ovf |-> FALSE]

(* strtol: the long it returns (sign and magnitude, saturated to the range  *)
(* of long) and endp as an index into s; Len(s) + 1 is the terminating NUL. *)
strtol(s, bits) ==
    Only({ IF p.none
           THEN [neg |-> FALSE, mag |-> MagZero, endp |-> 1]
           ELSE IF LongOverflows(p.neg, p.mag, bits)
           THEN [neg |-> p.neg,
                 mag |-> IF p.neg THEN LongMinMag(bits) ELSE LongMaxMag(bits),
                 endp |-> p.end]
           ELSE [neg |-> p.neg, mag |-> p.mag, endp |-> p.end] :
           p \in {ScanInteger(s)} })

(* The assignment of a long to an int32_t field keeps the low 32 bits of    *)
(* its two's-complement representation.                                     *)
LongToInt32(neg, m) ==
    LET n1 == IF ~neg THEN m.l1
              ELSE IF m.l0 = 0 THEN (Limb - m.l1) % Limb
              ELSE Limb - 1 - m.l1
        n0 == IF ~neg THEN m.l0 ELSE (Limb - m.l0) % Limb
    IN  IF n1 >= HalfLimb THEN (n1 - Limb) * Limb + n0 ELSE n1 * Limb + n0

-----------------------------------------------------------------------------
(* The inputs: file names, and what the backend may answer.                 *)

Colon == ":"
Path == <<"s", ".", "s", "v", "s">>

Label == <<"l", "a", "b", "e", "l">>
Macro == <<"m", "a", "c", "r", "o">>
Thumb == <<"t", "h", "u", "m", "b">>

(* Mode strings: none, layer numbers of every magnitude, names, and mixes.  *)
ModeStrings ==
    { << >>,
      <<"0">>, <<"1">>, <<"2">>, <<"3">>, <<"-", "1">>, <<"+", "1">>,
      <<" ", "2">>, <<"-", "0">>,
      <<"2","1","4","7","4","8","3","6","4","8">>,                \* 2^31
      <<"4","2","9","4","9","6","7","2","9","6">>,                \* 2^32
      <<"4","2","9","4","9","6","7","2","9","8">>,                \* 2^32 + 2
      <<"9","2","2","3","3","7","2","0","3","6","8","5","4","7","7","5","8","0","8">>,
      <<"-","9","2","2","3","3","7","2","0","3","6","8","5","4","7","7","5","8","0","8">>,
      <<"1","8","4","4","6","7","4","4","0","7","3","7","0","9","5","5","1","6","1","7">>,
      Label, Thumb, <<"1", "a">>, <<"-">> }

Filenames == { IF m = << >> THEN Path ELSE Path \o <<Colon>> \o m : m \in ModeStrings }

(* The `associated` argument of vips__openslide_read_associated.            *)
AssociatedArgs == {Label, Thumb}

(* Dimensions the backend reports: -1 on error, else the size.              *)
WidthReports == {I64(-1), I64(0), I64(1), I64(256), I64(600), I64(2000),
                 I64(INT_MAX), <<1, 0>>}
HeightReports == {I64(-1), I64(300), <<1, 0>>}
(* openslide_get_layer_downsample: -1.0 on error.                           *)
DownsampleReports == {-1, 1, 4}
(* openslide_get_layer_count: -1 on error.                                  *)
LayerCountReports == {-1, 1, 3}
(* openslide_get_associated_image_names: a NULL-terminated array.           *)
NameArrays == {<< >>, <<Macro, Label>>}

NoAnswers ==
    [openOk |-> FALSE, layerCount |-> 0, names |-> << >>,
     w |-> I64(0), h |-> I64(0), ds |-> 0]

BackendAnswers ==
    {NoAnswers} \cup
    [openOk : {TRUE}, layerCount : LayerCountReports, names : NameArrays,
     w : WidthReports, h : HeightReports, ds : DownsampleReports]

-----------------------------------------------------------------------------
(* readslide_new and readslide_destroy_cb.                                  *)

RECURSIVE LastColon(_, _)
LastColon(s, i) ==
    IF i = 0 THEN 0 ELSE IF s[i] = Colon THEN i ELSE LastColon(s, i - 1)

(* vips_filename_split: "name:mode", split at the last colon.               *)
vips_filename_split(filename) ==
    Only({ IF c = 0
           THEN [name |-> filename, mode |-> << >>]
           ELSE [name |-> SubSeq(filename, 1, c - 1),
                 mode |-> SubSeq(filename, c + 1, Len(filename))] :
           c \in {LastColon(filename, Len(filename))} })

(* memset( rslide, 0, sizeof( *rslide ) )                                   *)
ZeroSlide == [osr |-> 0, associated |-> NULL, layer |-> 0, downsample |-> 0]

(* A loop that stops after the first entry of the array.                    *)
check_associated_image_first(names, name) ==
    IF Len(names) >= 1 /\ names[1] = name THEN 0 ELSE -1

(* 0 when some entry of the array equals name, else -1.                     *)
check_associated_image(names, name) ==
    IF \E i \in 1 .. Len(names) : names[i] = name THEN 0 ELSE -1

(* The layer test of readslide_new: nonzero when the layer is refused.      *)
LayerOutOfRange(layer, layerCount) == layer < 0 \/ layer >= layerCount

(* The dimension tests of readslide_new.                                    *)
DimensionsFailed(w, h, downsample) == I64Neg(w) \/ I64Neg(h) \/ downsample < 0
(* An overflow test that forgets the height.                                *)
DimensionsOverflow_width(w, h) == I64GtIntMax(w)
DimensionsOverflow(w, h) == I64GtIntMax(w) \/ I64GtIntMax(h)

(* readslide_new( filename, out ) against a backend answering b: the        *)
(* struct it leaves behind, the image fields it sets and its outcome.       *)
readslide_new(filename, bits, b) ==
    Only({ Only({
        LET isLayer == mode # << >> /\ t.endp = Len(mode) + 1
            isName == ~isLayer /\ mode # << >>
            opened == [osr |-> 1, associated |-> NULL, layer |-> layer,
                       downsample |-> 0]
            full == IF isName THEN [opened EXCEPT !.associated = mode]
                              ELSE [opened EXCEPT !.downsample = b.ds]
            noimg == [set |-> FALSE, Xsize |-> 0, Ysize |-> 0]
        IN  IF ~b.openOk
            THEN [status |-> OpenFailure, rslide |-> ZeroSlide, img |-> noimg]
            ELSE IF isLayer /\ LayerOutOfRange(layer, b.layerCount)
            THEN [status |-> InvalidLayer, rslide |-> opened, img |-> noimg]
            ELSE IF isName /\ check_associated_image(b.names, mode) # 0
            THEN [status |-> InvalidAssociatedName, rslide |-> opened,
                  img |-> noimg]
            ELSE IF DimensionsFailed(b.w, b.h, full.downsample)
            THEN [status |-> DimensionQuery, rslide |-> full, img |-> noimg]
            ELSE IF DimensionsOverflow(b.w, b.h)
            THEN [status |-> DimensionOverflow, rslide |-> full, img |-> noimg]
            ELSE [status |-> Ok, rslide |-> full,
                  img |-> [set |-> TRUE, Xsize |-> I64ToInt(b.w),
                           Ysize |-> I64ToInt(b.h)]] :
        layer \in {LongToInt32(t.neg, t.mag)} }) :
      mode \in {vips_filename_split(filename).mode},
      t \in {strtol(vips_filename_split(filename).mode, bits)} })

(* A callback that closes without clearing the pointer.                     *)
readslide_destroy_cb_keep(rs) ==
    IF rs.osr # 0
    THEN [rslide |-> rs, closed |-> 1]
    ELSE [rslide |-> rs, closed |-> 0]

(* VIPS_FREEF( openslide_close, rslide->osr ): close and clear, if set.     *)
readslide_destroy_cb(rs) ==
    IF rs.osr # 0
    THEN [rslide |-> [rs EXCEPT !.osr = 0], closed |-> 1]
    ELSE [rslide |-> rs, closed |-> 0]

-----------------------------------------------------------------------------
(* The loader's entry points on one image.                                  *)

MaxTeardowns == 2

NoCall == [op |-> "none", filename |-> << >>, associated |-> NULL]
NoRa == [queried |-> << >>, w |-> I64(0), h |-> I64(0), allocs |-> 0,
         decoded |-> << >>, y |-> 0]
NoImg == [set |-> FALSE, Xsize |-> 0, Ysize |-> 0]

Init ==
    /\ LONG_BITS \in {32, 64}
    /\ pc = "idle"
    /\ call = NoCall
    /\ be = NoAnswers
    /\ rslide = ZeroSlide
    /\ connected = FALSE
    /\ opens = 0
    /\ closes = 0
    /\ teardowns = 0
    /\ img = NoImg
    /\ result = "none"
    /\ max_tiles = 0
    /\ ra = NoRa
    /\ thr = << >>
    /\ osrError = FALSE

(* The part every entry point shares: readslide_new on a fresh image.       *)
NewSlide(r, b) ==
    /\ be' = b
    /\ rslide' = r.rslide
    /\ connected' = TRUE
    /\ opens' = opens + (IF b.openOk THEN 1 ELSE 0)
    /\ img' = r.img

(* vips__openslide_read_header                                              *)
ReadHeader(filename) ==
    /\ pc = "idle"
    /\ \E b \in BackendAnswers :
        \E r \in {readslide_new(filename, LONG_BITS, b)} :
            /\ NewSlide(r, b)
            /\ result' = r.status
    /\ call' = [op |-> "read_header", filename |-> filename, associated |-> NULL]
    /\ pc' = "done"
    /\ UNCHANGED <<LONG_BITS, closes, teardowns, max_tiles, ra, thr, osrError>>

(* A capacity of one and a half times the tiles of a row, rounded up.       *)
TileCacheCapacity_ceil(Xsize) ==
    (3 * ((Xsize \div TILE_WIDTH) + (IF Xsize % TILE_WIDTH = 0 THEN 0 ELSE 1)) + 1)
        \div 2

(* The double 1.5 * (1 + Xsize / TILE_WIDTH), with an int division inside,  *)
(* passed as the int max_tiles of im_tile_cache: 3 * k / 2 truncated.       *)
TileCacheCapacity(Xsize) == (3 * (1 + Xsize \div TILE_WIDTH)) \div 2

(* The host call of vips__openslide_read_file that fails first, if any.     *)
HostOutcomes == {"im_open_local", "vips_image_generate", "im_tile_cache", "none"}

(* vips__openslide_read_file                                                *)
ReadFile(filename) ==
    /\ pc = "idle"
    /\ call' = [op |-> "read_file", filename |-> filename, associated |-> NULL]
    /\ pc' = "done"
    /\ \E fails \in HostOutcomes :
        IF fails = "im_open_local"
        THEN /\ result' = HostFailure
             /\ UNCHANGED <<be, rslide, connected, opens, img, max_tiles>>
        ELSE \E b \in BackendAnswers :
            \E r \in {readslide_new(filename, LONG_BITS, b)} :
                /\ NewSlide(r, b)
                /\ IF r.status # Ok
                   THEN /\ fails = "none"
                        /\ result' = r.status
                        /\ UNCHANGED max_tiles
                   ELSE IF fails = "vips_image_generate"
                   THEN /\ result' = HostFailure
                        /\ UNCHANGED max_tiles
                   ELSE /\ max_tiles' = TileCacheCapacity(r.img.Xsize)
                        /\ result' = IF fails = "none" THEN Ok ELSE HostFailure
    /\ UNCHANGED <<LONG_BITS, closes, teardowns, ra, thr, osrError>>

(* vips__openslide_read_associated, up to the return of readslide_new.      *)
ReadAssociatedOpen(filename, associated) ==
    /\ pc = "idle"
    /\ call' = [op |-> "read_associated", filename |-> filename,
                associated |-> associated]
    /\ \E b \in BackendAnswers :
        \E r \in {readslide_new(filename, LONG_BITS, b)} :
            /\ NewSlide(r, b)
            /\ IF r.status = Ok
               THEN pc' = "ra_query" /\ UNCHANGED result
               ELSE pc' = "done" /\ result' = r.status
    /\ UNCHANGED <<LONG_BITS, closes, teardowns, max_tiles, ra, thr, osrError>>

(* Sizes the backend reports for an associated image: -1 on error.          *)
MaxAssocEdge == 2
AssocReports == {I64(-1)} \cup {I64(k) : k \in 1 .. MaxAssocEdge}

(* A test that wants both dimensions unknown.                               *)
AssociatedDimensionsFailed_both(w, h) == I64IsMinus1(w) /\ I64IsMinus1(h)

(* The test after the dimension query of vips__openslide_read_associated.   *)
AssociatedDimensionsFailed(w, h) == I64IsMinus1(w) \/ I64IsMinus1(h)

(* openslide_get_associated_image_dimensions( osr, rslide->associated ) and *)
(* the test of its answer.  With a null name the backend hashes a null      *)
(* pointer: the call may kill the process or answer anything.               *)
ReadAssociatedQuery ==
    /\ pc = "ra_query"
    /\ \/ /\ rslide.associated = NULL
          /\ pc' = "done"
          /\ result' = Crash
          /\ ra' = [ra EXCEPT !.queried = Append(@, rslide.associated)]
       \/ \E w \in AssocReports, h \in AssocReports :
          /\ ra' = [ra EXCEPT !.queried = Append(@, rslide.associated),
                              !.w = w, !.h = h]
          /\ IF AssociatedDimensionsFailed(w, h)
             THEN pc' = "done" /\ result' = DimensionQuery
             ELSE pc' = "ra_decode" /\ UNCHANGED result
    /\ UNCHANGED <<LONG_BITS, call, be, rslide, connected, opens, closes,
                   teardowns, img, max_tiles, thr, osrError>>

(* What follows the buffer allocation: the decode, the error query and      *)
(* vips_image_wio_output.  A null buffer or a null name is written through  *)
(* or hashed by the backend.                                                *)
DecodeOutcomes == {"crash", "error", "wio_fails", "none"}

(* VIPS_ARRAY, openslide_read_associated_image, openslide_get_error,        *)
(* vips_image_wio_output.                                                   *)
ReadAssociatedDecode ==
    /\ pc = "ra_decode"
    /\ ra' = [ra EXCEPT !.allocs = @ + 1,
                        !.decoded = Append(@, rslide.associated)]
    /\ \E o \in DecodeOutcomes :
        /\ o = "crash" => rslide.associated = NULL
        /\ result' = CASE o = "crash" -> Crash
                       [] o = "error" -> ReadFailure
                       [] o = "wio_fails" -> HostFailure
                       [] OTHER -> result
        /\ pc' = IF o = "none" THEN "ra_write" ELSE "done"
    /\ UNCHANGED <<LONG_BITS, call, be, rslide, connected, opens, closes,
                   teardowns, img, max_tiles, thr, osrError>>

(* One turn of the loop over vips_image_write_line.                         *)
ReadAssociatedWriteLine ==
    /\ pc = "ra_write"
    /\ ra.y < I64ToInt(ra.h)
    /\ \E ok \in BOOLEAN :
        IF ok
        THEN /\ ra' = [ra EXCEPT !.y = @ + 1]
             /\ UNCHANGED <<pc, result>>
        ELSE /\ pc' = "done"
             /\ result' = HostFailure
             /\ UNCHANGED ra
    /\ UNCHANGED <<LONG_BITS, call, be, rslide, connected, opens, closes,
                   teardowns, img, max_tiles, thr, osrError>>

(* The loop is over: return( 0 ).                                           *)
ReadAssociatedReturn ==
    /\ pc = "ra_write"
    /\ ra.y >= I64ToInt(ra.h)
    /\ pc' = "done"
    /\ result' = Ok
    /\ UNCHANGED <<LONG_BITS, call, be, rslide, connected, opens, closes,
                   teardowns, img, max_tiles, ra, thr, osrError>>

(* The owning image is closed: "close" runs the callbacks connected to it.  *)
Close ==
    /\ pc = "done"
    /\ result # Crash
    /\ teardowns < MaxTeardowns
    /\ teardowns' = teardowns + 1
    /\ IF connected
       THEN \E d \in {readslide_destroy_cb(rslide)} :
            /\ rslide' = d.rslide
            /\ closes' = closes + d.closed
       ELSE UNCHANGED <<rslide, closes>>
    /\ UNCHANGED <<LONG_BITS, pc, call, be, connected, opens, img, result,
                   max_tiles, ra, thr, osrError>>

Next ==
    \/ \E f \in Filenames : ReadHeader(f)
    \/ \E f \in Filenames : ReadFile(f)
    \/ \E f \in Filenames, a \in AssociatedArgs : ReadAssociatedOpen(f, a)
    \/ ReadAssociatedQuery
    \/ ReadAssociatedDecode
    \/ ReadAssociatedWriteLine
    \/ ReadAssociatedReturn
    \/ Close

Spec == Init /\ [][Next]_vars

-----------------------------------------------------------------------------
(* fill_region, called by the threads of vips_image_generate on the handle  *)
(* vips__openslide_read_file built.                                         *)

Threads == {1, 2}

(* Edge lengths of the regions asked for: up to MaxGrid chunks a side.      *)
MaxGrid == 2
Edges == { k * TILE_WIDTH + e : k \in 0 .. MaxGrid - 1, e \in {0, 44} }

Rect(l, t, w, h) == [left |-> l, top |-> t, width |-> w, height |-> h]

Regions ==
    { Rect(0, 0, w, h) : w \in Edges, h \in Edges } \cup
    { Rect(1000, 70, w, 44) : w \in {44, 300} }

IsEmpty(r) == r.width <= 0 \/ r.height <= 0
Overlap(a, b) ==
    /\ ~IsEmpty(a) /\ ~IsEmpty(b)
    /\ a.left < b.left + b.width /\ b.left < a.left + a.width
    /\ a.top < b.top + b.height /\ b.top < a.top + a.height

Min(a, b) == IF a < b THEN a ELSE b

(* The loop tests: a read is due at offset (x, y) of region r.              *)
LoopContinues(r, x, y) == y < r.height /\ x < r.width

(* A chunk that is always a whole tile wide.                                *)
ChunkWidth_full(r, x) == TILE_WIDTH

(* int w = VIPS_MIN( TILE_WIDTH, r->width - x ), and h likewise.            *)
ChunkWidth(r, x) == Min(TILE_WIDTH, r.width - x)
ChunkHeight(r, y) == Min(TILE_HEIGHT, r.height - y)

(* x += TILE_WIDTH; at the end of a row, y += TILE_HEIGHT and x = 0.        *)
LoopAdvance(r, x, y) ==
    IF x + TILE_WIDTH < r.width
    THEN [x |-> x + TILE_WIDTH, y |-> y]
    ELSE [x |-> 0, y |-> y + TILE_HEIGHT]

(* The arguments of one openslide_read_region call: where it writes in the  *)
(* output, where it reads in the slide, the layer and the size.             *)
ReadRegionCall(rs, r, x, y) ==
    [dx |-> r.left + x, dy |-> r.top + y,
     sx |-> (r.left + x) * rs.downsample, sy |-> (r.top + y) * rs.downsample,
     layer |-> rs.layer, w |-> ChunkWidth(r, x), h |-> ChunkHeight(r, y)]

(* A return that ignores the error.                                         *)
FillRegionReturn_ignore(error) == Ok

(* The return value of fill_region from what openslide_get_error gave.      *)
FillRegionReturn(error) == IF error THEN ReadFailure ELSE Ok

IdleThread ==
    [pc |-> "idle", r |-> Rect(0, 0, 0, 0), x |-> 0, y |-> 0, calls |-> << >>,
     dest |-> {}, firstFailed |-> 0, queries |-> 0, errAtQuery |-> FALSE,
     ret |-> "none"]

(* The slides fill_region is checked on: layer 0 and a downsampled layer.   *)
FillFilenames == {Path, Path \o <<Colon, "1">>}
FillAnswers ==
    [openOk : {TRUE}, layerCount : {3}, names : {<<Macro, Label>>},
     w : {I64(2000)}, h : {I64(300)}, ds : {1, 4}]

(* The state vips__openslide_read_file leaves when it returns 0.            *)
InitFill ==
    /\ LONG_BITS = 64
    /\ pc = "done"
    /\ \E f \in FillFilenames, b \in FillAnswers :
        \E r \in {readslide_new(f, 64, b)} :
            /\ r.status = Ok
            /\ (r.rslide.layer = 0) = (b.ds = 1)
            /\ call = [op |-> "read_file", filename |-> f, associated |-> NULL]
            /\ be = b
            /\ rslide = r.rslide
            /\ img = r.img
            /\ max_tiles = TileCacheCapacity(r.img.Xsize)
    /\ connected = TRUE
    /\ opens = 1
    /\ closes = 0
    /\ teardowns = 0
    /\ result = Ok
    /\ ra = NoRa
    /\ thr = [t \in Threads |-> IdleThread]
    /\ osrError = FALSE

FillFrame == <<LONG_BITS, pc, call, be, rslide, connected, opens, closes,
               teardowns, img, result, max_tiles, ra>>

(* The scheduler asks thread t for region r: fill_region is entered.        *)
(* Regions being filled at the same time do not overlap.                    *)
Generate(t, r) ==
    /\ thr[t].pc = "idle"
    /\ \A u \in Threads \ {t} : thr[u].pc = "loop" => ~Overlap(r, thr[u].r)
    /\ thr' = [thr EXCEPT ![t] = [IdleThread EXCEPT !.pc = "loop", !.r = r]]
    /\ UNCHANGED <<FillFrame, osrError>>

(* One turn of the loops: openslide_read_region on the next chunk.  The     *)
(* backend may fail, which sets the error state of the resource.            *)
ReadRegion(t) ==
    /\ thr[t].pc = "loop"
    /\ LoopContinues(thr[t].r, thr[t].x, thr[t].y)
    /\ \E failed \in BOOLEAN, c \in {ReadRegionCall(rslide, thr[t].r, thr[t].x, thr[t].y)},
          n \in {LoopAdvance(thr[t].r, thr[t].x, thr[t].y)} :
        /\ thr' = [thr EXCEPT ![t].calls = Append(@, c),
                              ![t].dest = @ \cup {Rect(c.dx, c.dy, c.w, c.h)},
                              ![t].firstFailed =
                                  IF failed /\ @ = 0
                                  THEN Len(thr[t].calls) + 1 ELSE @,
                              ![t].x = n.x,
                              ![t].y = n.y]
        /\ osrError' = (osrError \/ failed)
    /\ UNCHANGED FillFrame

(* The loops are over: openslide_get_error, which reads and clears the      *)
(* error state of the resource, and the return.                             *)
GetError(t) ==
    /\ thr[t].pc = "loop"
    /\ ~LoopContinues(thr[t].r, thr[t].x, thr[t].y)
    /\ thr' = [thr EXCEPT ![t].pc = "returned",
                          ![t].queries = @ + 1,
                          ![t].errAtQuery = osrError,
                          ![t].ret = FillRegionReturn(osrError)]
    /\ osrError' = FALSE
    /\ UNCHANGED FillFrame

(* The scheduler has taken the result of the call: the thread is free for   *)
(* its next region.                                                         *)
Release(t) ==
    /\ thr[t].pc = "returned"
    /\ thr' = [thr EXCEPT ![t] = IdleThread]
    /\ UNCHANGED <<FillFrame, osrError>>

NextFill ==
    \/ \E t \in Threads, r \in Regions : Generate(t, r)
    \/ \E t \in Threads : ReadRegion(t)
    \/ \E t \in Threads : GetError(t)
    \/ \E t \in Threads : Release(t)

SpecFill == InitFill /\ [][NextFill]_vars

-----------------------------------------------------------------------------
(* Properties of readslide_new and of the entry points (under Spec).        *)

(* What the claims call the mode string of the call, and its reading as a   *)
(* number: optional white space, an optional sign, digits to the end.       *)
ModeOf == vips_filename_split(call.filename).mode
ParsesAsInteger(mode) ==
    LET p == ScanInteger(mode) IN ~p.none /\ p.end = Len(mode) + 1
(* 0 <= n < count, for n the number the mode string denotes.                *)
DenotesLayerBelow(mode, count) ==
    LET p == ScanInteger(mode)
    IN  /\ ~p.mag.ovf /\ p.mag.l3 = 0 /\ p.mag.l2 = 0 /\ p.mag.l1 = 0
        /\ (p.neg => p.mag.l0 = 0)
        /\ p.mag.l0 < count
(* n = layer, for n the number the mode string denotes.                     *)
DenotesLayer(mode, layer) ==
    LET p == ScanInteger(mode)
    IN  /\ ~p.mag.ovf /\ p.mag.l3 = 0 /\ p.mag.l2 = 0 /\ p.mag.l1 = 0
        /\ layer = (IF p.neg THEN 0 - p.mag.l0 ELSE p.mag.l0)

(* readslide_new has run and returned, called from read_header.             *)
Opened == pc = "done" /\ call.op = "read_header"
(* readslide_new has run, from any entry point.                             *)
NewRan == connected

(* C1: once the owning image has been closed, openslide_close has been      *)
(* called exactly once if openslide_open returned a handle and never if it  *)
(* did not, whatever readslide_new returned; before the close it has not    *)
(* been called, and closing again calls it no further.                      *)
C1_ClosedExactlyOnce ==
    NewRan =>
        /\ teardowns = 0 => closes = 0
        /\ teardowns >= 1 => closes = (IF be.openOk THEN 1 ELSE 0)

C1_Witness ==
    /\ NewRan /\ teardowns = 2 /\ be.openOk /\ result = InvalidLayer
    /\ closes = 1

(* C2: for a mode string that parses entirely as an integer n, the open     *)
(* succeeds only if 0 <= n < layerCount and then selects layer n, it fails  *)
(* with InvalidLayer for every other n, and it succeeds for n in range      *)
(* (when the dimensions the backend reports for the layer pass).            *)
C2_LayerModeValidated ==
    (Opened /\ be.openOk /\ ParsesAsInteger(ModeOf)) =>
        /\ result = Ok =>
            /\ DenotesLayerBelow(ModeOf, be.layerCount)
            /\ DenotesLayer(ModeOf, rslide.layer)
        /\ ~DenotesLayerBelow(ModeOf, be.layerCount) => result = InvalidLayer
        /\ (/\ DenotesLayerBelow(ModeOf, be.layerCount)
            /\ ~DimensionsFailed(be.w, be.h, be.ds)
            /\ ~DimensionsOverflow(be.w, be.h)) => result = Ok

(* The associated-image names the backend enumerates, as a set.             *)
NameSet == { be.names[i] : i \in 1 .. Len(be.names) }
IsNameMode(mode) == mode # << >> /\ ~ParsesAsInteger(mode)

(* C3, as claimed: for a non-empty mode string that is no integer, the open *)
(* succeeds iff the name is one the backend enumerates, fails with          *)
(* InvalidAssociatedName otherwise, and selects Associated(name).           *)
C3_NameModeOriginal ==
    (Opened /\ be.openOk /\ IsNameMode(ModeOf)) =>
        /\ (result = Ok) <=> (ModeOf \in NameSet)
        /\ ModeOf \notin NameSet => result = InvalidAssociatedName
        /\ result = Ok => rslide.associated = ModeOf

(* C3, amended: the open fails with InvalidAssociatedName iff the name is   *)
(* not enumerated; for an enumerated name the selector is Associated(name)  *)
(* and the open succeeds iff the width and height the backend reports for   *)
(* the associated image lie in 0 .. INT_MAX, failing with DimensionQuery    *)
(* when one is negative and with DimensionOverflow when one is too large.   *)
C3_NameModeAmended ==
    (Opened /\ be.openOk /\ IsNameMode(ModeOf)) =>
        /\ (result = InvalidAssociatedName) <=> (ModeOf \notin NameSet)
        /\ ModeOf \in NameSet =>
            /\ rslide.associated = ModeOf
            /\ (result = Ok) <=>
                 (/\ ~I64Neg(be.w) /\ ~I64Neg(be.h)
                  /\ ~I64GtIntMax(be.w) /\ ~I64GtIntMax(be.h))
            /\ (I64Neg(be.w) \/ I64Neg(be.h)) => result = DimensionQuery
            /\ (/\ ~I64Neg(be.w) /\ ~I64Neg(be.h)
                /\ (I64GtIntMax(be.w) \/ I64GtIntMax(be.h)))
                   => result = DimensionOverflow

C3_Witness ==
    /\ Opened /\ be.openOk /\ ModeOf = Label /\ be.names = <<Macro, Label>>
    /\ result = Ok /\ rslide.associated = Label

(* C4, as claimed: with an empty mode string layer 0 is selected, and the   *)
(* open succeeds iff the backend reports a non-negative width, height and   *)
(* downsample for it.                                                       *)
C4_NoModeOriginal ==
    (Opened /\ be.openOk /\ ModeOf = << >>) =>
        /\ rslide.layer = 0 /\ rslide.associated = NULL
        /\ (result = Ok) <=>
             (~I64Neg(be.w) /\ ~I64Neg(be.h) /\ be.ds >= 0)

(* C4, amended: with an empty mode string layer 0 is selected, and the open *)
(* succeeds iff the backend reports a non-negative downsample and a width   *)
(* and height in 0 .. INT_MAX; non-negative reports with a width or height  *)
(* above INT_MAX fail with DimensionOverflow, a negative one with           *)
(* DimensionQuery.                                                          *)
C4_NoModeAmended ==
    (Opened /\ be.openOk /\ ModeOf = << >>) =>
        /\ rslide.layer = 0 /\ rslide.associated = NULL
        /\ (result = Ok) <=>
             (/\ ~I64Neg(be.w) /\ ~I64Neg(be.h) /\ be.ds >= 0
              /\ ~I64GtIntMax(be.w) /\ ~I64GtIntMax(be.h))
        /\ (I64Neg(be.w) \/ I64Neg(be.h) \/ be.ds < 0) => result = DimensionQuery
        /\ (/\ ~I64Neg(be.w) /\ ~I64Neg(be.h) /\ be.ds >= 0
            /\ (I64GtIntMax(be.w) \/ I64GtIntMax(be.h)))
               => result = DimensionOverflow

C4_Witness ==
    /\ Opened /\ be.openOk /\ ModeOf = << >>
    /\ be.w = I64(2000) /\ be.h = <<1, 0>> /\ be.ds = 1
    /\ result = DimensionOverflow

(* ceil(a / b) for a >= 0, b > 0.                                           *)
CeilDiv(a, b) == (a \div b) + (IF a % b = 0 THEN 0 ELSE 1)

(* im_tile_cache has been handed a capacity for an image W wide.            *)
CacheSized == call.op = "read_file" /\ max_tiles # 0

C7_UnknownDimensions ==
    LET inNew == /\ NewRan /\ be.openOk /\ rslide.associated # NULL
                 /\ (I64IsMinus1(be.w) \/ I64IsMinus1(be.h))
        after == /\ ra.queried # << >>
                 /\ (I64IsMinus1(ra.w) \/ I64IsMinus1(ra.h))
    IN  (call.op = "read_associated" /\ (inNew \/ after)) =>
            /\ pc = "done" /\ result = DimensionQuery
            /\ ra.allocs = 0 /\ ra.decoded = << >> /\ ra.y = 0

C7_Witness ==
    /\ call.op = "read_associated" /\ ra.queried = <<Label>>
    /\ ra.w = I64(2) /\ I64IsMinus1(ra.h)
    /\ result = DimensionQuery /\ ra.allocs = 0 /\ teardowns = 1

(* C8: the handle vips__openslide_read_associated( path, name ) opens has   *)
(* the selector Associated(name), for the name it was given, and the        *)
(* dimension query and the decode are issued for that name.                 *)
C8_SelectsGivenName ==
    (call.op = "read_associated" /\ NewRan /\ (pc # "done" \/ result = Ok
        \/ ra.queried # << >>)) =>
        /\ rslide.associated = call.associated
        /\ \A i \in 1 .. Len(ra.queried) : ra.queried[i] = call.associated
        /\ \A i \in 1 .. Len(ra.decoded) : ra.decoded[i] = call.associated

-----------------------------------------------------------------------------
(* Properties of fill_region (under SpecFill).                              *)

(* Thread t has left the loops of fill_region.                              *)
ReadsDone(t) == thr[t].pc = "returned"

(* The part of the output a read wrote.                                     *)
Written(c) == Rect(c.dx, c.dy, c.w, c.h)
Inside(a, r) ==
    /\ r.left <= a.left /\ a.left + a.width <= r.left + r.width
    /\ r.top <= a.top /\ a.top + a.height <= r.top + r.height

RECURSIVE AreaSum(_, _)
AreaSum(calls, n) ==
    IF n = 0 THEN 0 ELSE AreaSum(calls, n - 1) + calls[n].w * calls[n].h

(* The reads of thread t are the row-major grid of its region r: as many as *)
(* ceil(w / 256) * ceil(h / 256), the i-th at column (i - 1) mod nx and row *)
(* (i - 1) div nx, each min(256, what is left) wide and high.               *)
RowMajorGrid(t) ==
    LET r == thr[t].r
        calls == thr[t].calls
        nx == CeilDiv(r.width, 256)
        ny == CeilDiv(r.height, 256)
    IN  /\ Len(calls) = nx * ny
        /\ \A i \in 1 .. Len(calls) :
            LET col == (i - 1) % nx
                row == (i - 1) \div nx
            IN  /\ calls[i].dx = r.left + 256 * col
                /\ calls[i].dy = r.top + 256 * row
                /\ calls[i].w = Min(256, r.width - 256 * col)
                /\ calls[i].h = Min(256, r.height - 256 * row)

(* The reads of thread t tile its region: every one inside it, no two       *)
(* overlapping, and together as large as the region.                        *)
ExactCover(t) ==
    LET r == thr[t].r
        calls == thr[t].calls
    IN  /\ \A i \in 1 .. Len(calls) :
            /\ calls[i].w > 0 /\ calls[i].h > 0
            /\ Inside(Written(calls[i]), r)
        /\ \A i, j \in 1 .. Len(calls) :
            i # j => ~Overlap(Written(calls[i]), Written(calls[j]))
        /\ AreaSum(calls, Len(calls)) = r.width * r.height

(* C5: a fill of a region w wide and h high issues exactly ceil(w / 256) *  *)
(* ceil(h / 256) reads, in row-major order, each min(256, remaining) wide   *)
(* and high, pairwise disjoint and covering exactly the region; for the     *)
(* 300 x 300 region at (0, 0) they are 256 x 256 at (0, 0), 44 x 256 at     *)
(* (256, 0), 256 x 44 at (0, 256) and 44 x 44 at (256, 256).                *)
C5_ChunkGrid ==
    \A t \in Threads :
        ReadsDone(t) =>
            /\ RowMajorGrid(t)
            /\ ExactCover(t)
            /\ thr[t].r = Rect(0, 0, 300, 300) =>
                [i \in 1 .. Len(thr[t].calls) |-> Written(thr[t].calls[i])] =
                    << Rect(0, 0, 256, 256), Rect(256, 0, 44, 256),
                       Rect(0, 256, 256, 44), Rect(256, 256, 44, 44) >>

C5_Witness ==
    \E t \in Threads :
        /\ ReadsDone(t) /\ thr[t].r = Rect(0, 0, 300, 300)
        /\ Len(thr[t].calls) = 4
        /\ thr[t].calls[4].w = 44 /\ thr[t].calls[4].h = 44

(* C9: in every call of fill_region the error state is not queried before   *)
(* the last read is issued; every read of the region is issued exactly once *)
(* whether or not an earlier one failed; the error state is queried exactly *)
(* once; the call fails with ReadFailure iff the error state was set at     *)
(* that query; and what the reads wrote stays written.                      *)
C9_ReadsThenOneQuery ==
    \A t \in Threads :
        /\ thr[t].pc = "loop" => thr[t].queries = 0 /\ thr[t].ret = "none"
        /\ ReadsDone(t) =>
            LET calls == thr[t].calls
            IN  /\ Len(calls) = CeilDiv(thr[t].r.width, 256)
                                  * CeilDiv(thr[t].r.height, 256)
                /\ \A i, j \in 1 .. Len(calls) : i # j => calls[i] # calls[j]
                /\ thr[t].queries = 1
                /\ (thr[t].ret = ReadFailure) <=> thr[t].errAtQuery
                /\ thr[t].ret \in {ReadFailure, Ok}
                /\ thr[t].dest = { Written(calls[i]) : i \in 1 .. Len(calls) }

C9_Witness ==
    \E t \in Threads :
        /\ ReadsDone(t) /\ thr[t].firstFailed = 1 /\ Len(thr[t].calls) = 4
        /\ thr[t].errAtQuery /\ thr[t].ret = ReadFailure
        /\ Cardinality(thr[t].dest) = 4

(* C10: when fill_region runs in two threads on disjoint regions of one     *)
(* handle (regions that hold pixels), each call returns ReadFailure iff one *)
(* of its own reads failed, and the handle is left as readslide_new built   *)
(* it.                                                                      *)
C10_OwnFailuresOnly ==
    /\ (\A u \in Threads : thr[u].pc # "idle" => ~IsEmpty(thr[u].r)) =>
        \A t \in Threads :
            ReadsDone(t) =>
                ((thr[t].ret = ReadFailure) <=> (thr[t].firstFailed # 0))
    /\ rslide = readslide_new(call.filename, LONG_BITS, be).rslide

=============================================================================
